---------------------------- MODULE Spec2Model ----------------------------
(***************************************************************************)
(* RockChip MPP video encoder adapter (libavcodec/rkmppenc.c).             *)
(*                                                                         *)
(* The model follows one encode session: rkmpp_init_encoder, any number of *)
(* rkmpp_encode_frame calls, rkmpp_close_encoder, and the release of the   *)
(* packets handed to the caller (rkmpp_release_packet).  The caller        *)
(* serialises the calls, so each handler is one atomic action.  The MPP    *)
(* engine behind the two task ports is the environment: each of its calls  *)
(* may succeed or fail, and the handlers' reactions are taken from the     *)
(* source.  A handler returns at the first call that fails, so the         *)
(* engine's answers during one handler are given as the first call that    *)
(* fails (or "none").                                                      *)
(***************************************************************************)
EXTENDS Integers, Sequences, FiniteSets, TLC

(* Bound on the number of rkmpp_encode_frame calls in one run. *)
MaxCalls == 3

VARIABLES
    have_nv12_10,  \* build option: DRM_FORMAT_NV12_10 is defined
    initDone,      \* "no", "ok", "failed": outcome of rkmpp_init_encoder
    init_ret,      \* value returned by rkmpp_init_encoder
    init_steps,    \* the steps rkmpp_init_encoder executed, in order
    encoder_ref,   \* rk_context->encoder_ref is non-NULL
    refcount,      \* strong references to the RKMPPEncoder buffer
    encoder,       \* the RKMPPEncoder record
    teardown,      \* calls made by rkmpp_release_encoder, in order
    pending,       \* frames inside the engine (eos flag of each), oldest first
    outPkts,       \* packet handles delivered to the caller, not yet released
    nCalls,        \* rkmpp_encode_frame calls so far
    nSubmitted,    \* non-null frames enqueued on the input port
    nDelivered,    \* packets delivered that the engine did not flag eos
    nDeliveredEos, \* packets delivered that the engine flagged eos
    nEof,          \* retrievals that ended in AVERROR_EOF
    ideal,         \* no engine call or allocation has failed so far
    lastCall,      \* what the last handler did
    avctx,         \* the caller's settings in AVCodecContext
    rc_cfg,        \* the MppEncRcCfg block handed to the engine
    codec_cfg,     \* the MppEncCodecCfg block handed to the engine
    pkt,           \* pts and dts of an output AVPacket
    applied        \* the inputs and first results of the configuration
                   \* and timestamp steps, and how often each was applied

vars == <<have_nv12_10, initDone, init_ret, init_steps, encoder_ref, refcount,
          encoder, teardown, pending, outPkts, nCalls, nSubmitted, nDelivered,
          nDeliveredEos, nEof, ideal, lastCall,
          avctx, rc_cfg, codec_cfg, pkt, applied>>

(* The session as the program sees it: everything but the model's counters *)
(* and the record of the last call.                                        *)
session == <<encoder_ref, refcount, encoder, teardown, pending, outPkts>>

-----------------------------------------------------------------------------
(* Format translation *)

CodecIds == {"AV_CODEC_ID_H264", "AV_CODEC_ID_HEVC"}

rkmpp_get_codingtype(codec_id) ==
    IF codec_id = "AV_CODEC_ID_H264" THEN "MPP_VIDEO_CodingAVC"
    ELSE "MPP_VIDEO_CodingUnused"

(* -1 stands for "no mapping". *)
rkmpp_get_mppformat(avformat) ==
    CASE avformat = "AV_PIX_FMT_NV12"    -> "MPP_FMT_YUV420SP"
      [] avformat = "AV_PIX_FMT_YUV420P" -> "MPP_FMT_YUV420P"
      [] avformat = "AV_PIX_FMT_YUYV422" -> "MPP_FMT_YUV422_YUYV"
      [] avformat = "AV_PIX_FMT_UYVY422" -> "MPP_FMT_YUV422_UYVY"
      [] avformat = "AV_PIX_FMT_P010" /\ have_nv12_10 -> "MPP_FMT_YUV420SP_10BIT"
      [] OTHER -> "-1"

-----------------------------------------------------------------------------
(* Session reference counting and teardown *)

NoEncoder == [allocated |-> FALSE, mpi |-> FALSE, ctx |-> FALSE,
              eos_reached |-> FALSE]

(* A plausible slip: the engine context is reset and destroyed without     *)
(* looking at encoder->mpi.                                                *)
rkmpp_release_encoder_unguarded(enc, log) ==
    [encoder  |-> [enc EXCEPT !.allocated = FALSE, !.ctx = FALSE],
     teardown |-> log \o <<"reset", "mpp_destroy", "av_free">>]

(* rkmpp_release_encoder: the free callback of the encoder buffer.  Returns *)
(* the encoder record and the teardown log after it ran.                    *)
rkmpp_release_encoder(enc, log) ==
    [encoder  |-> [enc EXCEPT !.allocated = FALSE, !.ctx = FALSE],
     teardown |-> log \o (IF enc.mpi THEN <<"reset", "mpp_destroy">> ELSE <<>>)
                      \o <<"av_free">>]

(* av_buffer_unref on one reference to the encoder buffer: the count drops  *)
(* by one and the free callback runs when it reaches zero.                  *)
unref_encoder(rc, enc, log) ==
    IF rc = 1
    THEN [refcount |-> 0] @@ rkmpp_release_encoder(enc, log)
    ELSE [refcount |-> rc - 1, encoder |-> enc, teardown |-> log]

(* A plausible slip: the reference is dropped through a copy of the        *)
(* pointer, so the session's own pointer is not set to NULL.               *)
rkmpp_close_encoder_keeps_ref(ref, rc, enc, log) ==
    IF ref
    THEN [encoder_ref |-> TRUE] @@ unref_encoder(rc, enc, log)
    ELSE [encoder_ref |-> FALSE, refcount |-> rc, encoder |-> enc,
          teardown |-> log]

(* rkmpp_close_encoder: av_buffer_unref(&rk_context->encoder_ref), which    *)
(* does nothing on a NULL reference and leaves the reference NULL.          *)
rkmpp_close_encoder(ref, rc, enc, log) ==
    IF ref
    THEN [encoder_ref |-> FALSE] @@ unref_encoder(rc, enc, log)
    ELSE [encoder_ref |-> FALSE, refcount |-> rc, encoder |-> enc,
          teardown |-> log]

(* A plausible slip: the packet's reference to the encoder is not dropped. *)
rkmpp_release_packet_no_unref(rc, enc, log) ==
    [refcount |-> rc, encoder |-> enc, teardown |-> log]

(* rkmpp_release_packet: the free callback of a delivered packet's buffer:  *)
(* mpp_packet_deinit, then the packet's reference to the encoder is dropped.*)
rkmpp_release_packet(rc, enc, log) ==
    unref_encoder(rc, enc, log)

-----------------------------------------------------------------------------
(* Session start *)

(* A plausible slip: the codec block is set before the rate-control block. *)
InitSteps_codec_first ==
    <<"get_codingtype", "mpp_check_support_format", "av_mallocz",
      "av_buffer_create", "mpp_create", "mpp_init", "prep_cfg",
      "codec_cfg", "rc_cfg", "sei_cfg", "input_timeout",
      "output_timeout", "extra_info", "extradata">>

(* The steps of rkmpp_init_encoder in source order.  "extradata" is the    *)
(* copy of the out-of-band header, run only when the engine returned one.  *)
InitSteps == <<"get_codingtype", "mpp_check_support_format", "av_mallocz",
               "av_buffer_create", "mpp_create", "mpp_init", "prep_cfg",
               "rc_cfg", "codec_cfg", "sei_cfg", "input_timeout",
               "output_timeout", "extra_info", "extradata">>

(* What can fail in the environment: every step but the codec lookup,      *)
(* which is decided by avctx->codec_id.                                    *)
InitFaults == {InitSteps[i] : i \in 2..Len(InitSteps)} \cup {"none"}

StepIndex(step) == CHOOSE i \in 1..Len(InitSteps) : InitSteps[i] = step

(* The step at which rkmpp_init_encoder takes "goto fail", or "none". *)
init_fail_step(codec_id, fault) ==
    IF rkmpp_get_codingtype(codec_id) = "MPP_VIDEO_CodingUnused"
    THEN "get_codingtype"
    ELSE fault

(* The steps executed: each step runs only if every earlier one passed. *)
init_executed(failstep, has_header) ==
    IF failstep # "none" THEN SubSeq(InitSteps, 1, StepIndex(failstep))
    ELSE IF has_header THEN InitSteps
    ELSE SubSeq(InitSteps, 1, Len(InitSteps) - 1)

init_passed(step, failstep) ==
    failstep = "none" \/ StepIndex(step) < StepIndex(failstep)

(* The return value at each failing step. *)
init_error(failstep) ==
    IF failstep \in {"av_mallocz", "av_buffer_create", "extradata"}
    THEN "AVERROR(ENOMEM)"
    ELSE "AVERROR_UNKNOWN"

(* A plausible slip: the fail label returns without rkmpp_close_encoder.   *)
rkmpp_init_encoder_no_close(codec_id, fault, has_header) ==
    LET failstep == init_fail_step(codec_id, fault)
        ref      == init_passed("av_buffer_create", failstep)
        created  == init_passed("mpp_create", failstep)
    IN  [ret |-> IF failstep = "none" THEN "0" ELSE init_error(failstep),
         steps |-> init_executed(failstep, has_header),
         encoder_ref |-> ref, refcount |-> IF ref THEN 1 ELSE 0,
         encoder |-> [allocated |-> ref, mpi |-> created, ctx |-> created,
                      eos_reached |-> FALSE],
         teardown |-> IF failstep = "av_buffer_create" THEN <<"av_free">>
                      ELSE <<>>]

(* rkmpp_init_encoder.  On success the session holds one reference to a    *)
(* live encoder; on failure the fail label runs rkmpp_close_encoder on     *)
(* whatever had been built.                                                *)
rkmpp_init_encoder(codec_id, fault, has_header) ==
    LET failstep == init_fail_step(codec_id, fault)
        ref      == init_passed("av_buffer_create", failstep)
        created  == init_passed("mpp_create", failstep)
        enc      == [allocated |-> ref, mpi |-> created, ctx |-> created,
                     eos_reached |-> FALSE]
        log      == IF failstep = "av_buffer_create" THEN <<"av_free">> ELSE <<>>
        built    == [encoder_ref |-> ref, refcount |-> IF ref THEN 1 ELSE 0,
                     encoder |-> enc, teardown |-> log]
        steps    == [steps |-> init_executed(failstep, has_header)]
    IN  IF failstep = "none"
        THEN [ret |-> "0"] @@ steps @@ built
        ELSE [ret |-> init_error(failstep)] @@ steps
             @@ rkmpp_close_encoder(ref, built.refcount, enc, log)

-----------------------------------------------------------------------------
(* Configuration blocks *)

FF_PROFILE_H264_BASELINE == 66
FF_PROFILE_H264_MAIN == 77
FF_PROFILE_H264_HIGH == 100
FF_LEVEL_UNKNOWN == -99

NoRcCfg == [rc_mode |-> "unset", quality |-> "unset", bps_target |-> 0,
            bps_max |-> 0, bps_min |-> 0]

NoCodecCfg == [coding |-> "unset"]

(* A plausible slip: the division is done before the multiplication. *)
rc_bitrate_divide_first(rc_mode, quality, bit_rate) ==
    IF rc_mode = "MPP_ENC_RC_MODE_CBR"
    THEN [bps_target |-> bit_rate,
          bps_max    |-> (bit_rate \div 16) * 17,
          bps_min    |-> (bit_rate \div 16) * 15]
    ELSE IF rc_mode = "MPP_ENC_RC_MODE_VBR"
    THEN IF quality = "MPP_ENC_RC_QUALITY_CQP"
         THEN [bps_target |-> -1, bps_max |-> -1, bps_min |-> -1]
         ELSE [bps_target |-> bit_rate,
               bps_max    |-> (bit_rate \div 16) * 17,
               bps_min    |-> (bit_rate \div 16) * 1]
    ELSE [bps_target |-> 0, bps_max |-> 0, bps_min |-> 0]

(* The bitrate fields of rkmpp_rc_config as a function of the mode and the *)
(* quality it tests.  bit_rate is not negative, so C's division is \div.   *)
rc_bitrate(rc_mode, quality, bit_rate) ==
    IF rc_mode = "MPP_ENC_RC_MODE_CBR"
    THEN [bps_target |-> bit_rate,
          bps_max    |-> (bit_rate * 17) \div 16,
          bps_min    |-> (bit_rate * 15) \div 16]
    ELSE IF rc_mode = "MPP_ENC_RC_MODE_VBR"
    THEN IF quality = "MPP_ENC_RC_QUALITY_CQP"
         THEN [bps_target |-> -1, bps_max |-> -1, bps_min |-> -1]
         ELSE [bps_target |-> bit_rate,
               bps_max    |-> (bit_rate * 17) \div 16,
               bps_min    |-> (bit_rate * 1) \div 16]
    ELSE [bps_target |-> 0, bps_max |-> 0, bps_min |-> 0]

(* rkmpp_rc_config: the mode and the quality are fixed in the source. *)
rkmpp_rc_config(bit_rate) ==
    [rc_mode |-> "MPP_ENC_RC_MODE_CBR", quality |-> "MPP_ENC_RC_QUALITY_MEDIUM"]
    @@ rc_bitrate("MPP_ENC_RC_MODE_CBR", "MPP_ENC_RC_QUALITY_MEDIUM", bit_rate)

(* The profile rkmpp_codec_config leaves in avctx->profile. *)
h264_profile(profile) ==
    IF /\ profile # FF_PROFILE_H264_BASELINE
       /\ profile # FF_PROFILE_H264_MAIN
       /\ profile # FF_PROFILE_H264_HIGH
    THEN FF_PROFILE_H264_HIGH
    ELSE profile

(* A plausible slip: the level is forced to 51 whatever it was. *)
h264_level_always(level) == 51

(* The level rkmpp_codec_config leaves in avctx->level. *)
h264_level(level) ==
    IF level = FF_LEVEL_UNKNOWN THEN 51 ELSE level

(* A plausible slip: the constant-bitrate branch is missing, so the        *)
(* caller's quantizer range goes through.                                  *)
h264_qp_no_cbr(rc_mode, quality, qmin, qmax, max_qdiff) ==
    IF rc_mode = "MPP_ENC_RC_MODE_VBR"
    THEN IF quality = "MPP_ENC_RC_QUALITY_CQP"
         THEN [qp_max |-> 26, qp_min |-> 26, qp_max_step |-> 0, qp_init |-> 26]
         ELSE [qp_max |-> 40, qp_min |-> 12, qp_max_step |-> 8, qp_init |-> 0]
    ELSE [qp_max |-> qmax, qp_min |-> qmin, qp_max_step |-> max_qdiff,
          qp_init |-> 26]

(* The QP fields of rkmpp_codec_config: they start from the caller's       *)
(* qmin, qmax and max_qdiff and from qp_init = 26.                         *)
h264_qp(rc_mode, quality, qmin, qmax, max_qdiff) ==
    IF rc_mode = "MPP_ENC_RC_MODE_CBR"
    THEN [qp_max |-> 48, qp_min |-> 4, qp_max_step |-> 16, qp_init |-> 0]
    ELSE IF rc_mode = "MPP_ENC_RC_MODE_VBR"
    THEN IF quality = "MPP_ENC_RC_QUALITY_CQP"
         THEN [qp_max |-> 26, qp_min |-> 26, qp_max_step |-> 0, qp_init |-> 26]
         ELSE [qp_max |-> 40, qp_min |-> 12, qp_max_step |-> 8, qp_init |-> 0]
    ELSE [qp_max |-> qmax, qp_min |-> qmin, qp_max_step |-> max_qdiff,
          qp_init |-> 26]

(* rkmpp_codec_config up to the control call: the block it builds and the  *)
(* avctx it leaves (profile and level are written back).                   *)
rkmpp_codec_config(ctx, codectype, rc) ==
    IF codectype = "MPP_VIDEO_CodingAVC"
    THEN LET profile == h264_profile(ctx.profile)
             level   == h264_level(ctx.level)
         IN  [ret   |-> "0",
              avctx |-> [ctx EXCEPT !.profile = profile, !.level = level],
              codec_cfg |->
                  [coding |-> codectype, profile |-> profile, level |-> level,
                   entropy_coding_mode |->
                       IF profile = FF_PROFILE_H264_HIGH THEN 1 ELSE 0,
                   cabac_init_idc |-> 0, transform8x8_mode |-> 1]
                  @@ h264_qp(rc.rc_mode, rc.quality, ctx.qmin, ctx.qmax,
                             ctx.max_qdiff)]
    ELSE IF codectype = "MPP_VIDEO_CodingMJPEG"
    THEN [ret |-> "0", avctx |-> ctx,
          codec_cfg |-> [coding |-> codectype, quant |-> 10]]
    ELSE [ret |-> "AVERROR_UNKNOWN", avctx |-> ctx,
          codec_cfg |-> [coding |-> codectype]]

(* A plausible slip: dts falls back to the pts the engine gave, not to the *)
(* pts just corrected.                                                     *)
normalize_timestamps_from_raw(pts, dts) ==
    [pts |-> IF pts <= 0 THEN dts ELSE pts,
     dts |-> IF dts <= 0 THEN pts ELSE dts]

(* The timestamps rkmpp_receive_packet leaves in the AVPacket for the pts  *)
(* and dts of the native packet.                                           *)
normalize_timestamps(pts, dts) ==
    LET pts1 == IF pts <= 0 THEN dts ELSE pts
    IN  [pts |-> pts1,
         dts |-> IF dts <= 0 THEN pts1 ELSE dts]

-----------------------------------------------------------------------------
(* Frame submission *)

(* The caller's frames: a null frame (end of stream), or a frame with its  *)
(* format and the sw_format of its hardware frames context.                *)
NullFrame == [null |-> TRUE, format |-> "none", sw_format |-> "none"]

Frames == {NullFrame}
          \cup [null : {FALSE}, format : {"AV_PIX_FMT_DRM_PRIME"},
                sw_format : {"AV_PIX_FMT_NV12", "AV_PIX_FMT_YUYV422",
                             "AV_PIX_FMT_P010", "AV_PIX_FMT_RGB24"}]
          \cup {[null |-> FALSE, format |-> "AV_PIX_FMT_YUV420P",
                 sw_format |-> "AV_PIX_FMT_YUV420P"]}

(* The first engine call or allocation of rkmpp_queue_frame that fails. *)
SubmitFaults == {"none", "mpp_frame_init", "mpp_buffer_import",
                 "poll_timeout", "poll_error",
                 "dequeue_timeout", "dequeue_null",
                 "enqueue"}

(* The value rkmpp_queue_frame returns at its out label, where the local   *)
(* ret holds err.                                                          *)
queue_out_return(err) == "0"

(* A plausible slip: the imported buffer is put back as soon as it has     *)
(* been attached, before the port calls (the last of which ends ev).       *)
queue_out_put_first(ev, buffer, frame, err, eos) ==
    [ret       |-> queue_out_return(err),
     err       |-> err,
     out_frame |-> ~frame,
     submitted |-> ~frame,
     eos       |-> eos,
     ev        |-> SubSeq(ev, 1, Len(ev) - 1)
                      \o (IF buffer THEN <<"mpp_buffer_put">> ELSE <<>>)
                      \o <<ev[Len(ev)]>>
                      \o (IF frame THEN <<"mpp_frame_deinit">> ELSE <<>>)]

(* The out label of rkmpp_queue_frame: the imported buffer is put back if  *)
(* there is one, the descriptor is deinitialised if it is still owned.     *)
queue_out(ev, buffer, frame, err, eos) ==
    [ret       |-> queue_out_return(err),
     err       |-> err,
     out_frame |-> ~frame,
     submitted |-> ~frame,
     eos       |-> eos,
     ev        |-> ev \o (IF buffer THEN <<"mpp_buffer_put">> ELSE <<>>)
                      \o (IF frame THEN <<"mpp_frame_deinit">> ELSE <<>>)]

(* A return of rkmpp_queue_frame before its out label. *)
queue_return(ret, ev) ==
    [ret |-> ret, err |-> ret, out_frame |-> FALSE, submitted |-> FALSE,
     eos |-> FALSE, ev |-> ev]

(* rkmpp_queue_frame from mpp_frame_init on (the frame has passed the      *)
(* format check).                                                          *)
queue_frame_submit(eos_reached, avframe, sf) ==
    IF sf = "mpp_frame_init"
    THEN queue_return("AVERROR_UNKNOWN", <<"mpp_frame_init_failed">>)
    ELSE
    LET e1 == <<"mpp_frame_init">>
        e2 == e1 \o (IF avframe.null THEN <<>> ELSE <<"mpp_buffer_import">>)
        buffer == ~avframe.null
    IN  IF ~avframe.null /\ sf = "mpp_buffer_import"
        THEN queue_out(e1 \o <<"mpp_buffer_import_failed">>, FALSE, TRUE,
                       "AVERROR(EINVAL)", eos_reached)
        ELSE IF sf \in {"poll_timeout", "poll_error"}
        THEN queue_out(e2 \o <<"poll_in_failed">>, buffer, TRUE,
                       "AVERROR_UNKNOWN", eos_reached)
        ELSE IF sf \in {"dequeue_timeout", "dequeue_null"}
        THEN queue_out(e2 \o <<"poll_in", "dequeue_in_failed">>, buffer, TRUE,
                       "AVERROR_UNKNOWN", eos_reached)
        ELSE IF sf = "enqueue"
        THEN queue_out(e2 \o <<"poll_in", "dequeue_in", "enqueue_in_failed">>,
                       buffer, TRUE, "AVERROR_UNKNOWN", eos_reached)
        ELSE queue_out(e2 \o <<"poll_in", "dequeue_in", "enqueue_in">>,
                       buffer, FALSE, "0", eos_reached)

(* A plausible slip: the check of the engine format is left out. *)
rkmpp_queue_frame_unchecked(eos_reached, avframe, sf) ==
    IF ~avframe.null /\ avframe.format # "AV_PIX_FMT_DRM_PRIME"
    THEN queue_return("AVERROR(EINVAL)", <<>>)
    ELSE queue_frame_submit(eos_reached, avframe, sf)

rkmpp_queue_frame(eos_reached, avframe, sf) ==
    IF ~avframe.null /\ avframe.format # "AV_PIX_FMT_DRM_PRIME"
    THEN queue_return("AVERROR(EINVAL)", <<>>)
    ELSE IF ~avframe.null /\ rkmpp_get_mppformat(avframe.sw_format) = "-1"
    THEN queue_return("AVERROR(EINVAL)", <<>>)
    ELSE queue_frame_submit(eos_reached, avframe, sf)

(* A plausible slip: eos_reached follows the frame of the current call. *)
rkmpp_send_frame_eos_per_call(eos_reached, avframe, sf) ==
    [eos_reached |-> avframe.null]
    @@ rkmpp_queue_frame(avframe.null, avframe, sf)

(* rkmpp_send_frame: a null frame sets eos_reached before the submission.  *)
rkmpp_send_frame(eos_reached, avframe, sf) ==
    IF avframe.null
    THEN [eos_reached |-> TRUE] @@ rkmpp_queue_frame(TRUE, avframe, sf)
    ELSE [eos_reached |-> eos_reached]
         @@ rkmpp_queue_frame(eos_reached, avframe, sf)

-----------------------------------------------------------------------------
(* Packet retrieval *)

(* The first engine call or allocation of rkmpp_receive_packet that fails. *)
ReceiveFaults == {"none", "poll_timeout", "poll_error",
                  "dequeue_timeout", "dequeue_null",
                  "enqueue", "av_mallocz", "av_buffer_create"}

(* A plausible slip: the fail label forgets the native packet. *)
receive_fail_keeps_packet(ret, ev, packet, mpp_frame, pend, delivered, pkt_eos) ==
    [ret       |-> ret,
     pending   |-> pend,
     delivered |-> delivered,
     pkt_eos   |-> pkt_eos,
     mpp_frame |-> FALSE,
     ev        |-> ev \o (IF mpp_frame THEN <<"mpp_frame_deinit">> ELSE <<>>)]

(* A plausible slip: the fail label leaves the frame descriptor alone. *)
receive_fail_keeps_frame(ret, ev, packet, mpp_frame, pend, delivered, pkt_eos) ==
    [ret       |-> ret,
     pending   |-> pend,
     delivered |-> delivered,
     pkt_eos   |-> pkt_eos,
     mpp_frame |-> mpp_frame,
     ev        |-> ev \o (IF packet THEN <<"mpp_packet_deinit">> ELSE <<>>)]

(* The fail label of rkmpp_receive_packet, reached on every path: a native *)
(* packet still held is deinitialised, and so is the frame descriptor.     *)
receive_fail(ret, ev, packet, mpp_frame, pend, delivered, pkt_eos) ==
    [ret       |-> ret,
     pending   |-> pend,
     delivered |-> delivered,
     pkt_eos   |-> pkt_eos,
     mpp_frame |-> FALSE,
     ev        |-> ev \o (IF packet THEN <<"mpp_packet_deinit">> ELSE <<>>)
                      \o (IF mpp_frame THEN <<"mpp_frame_deinit">> ELSE <<>>)]

(* A plausible slip: the output task is enqueued back only inside the      *)
(* branch that handles a packet.                                           *)
rkmpp_receive_packet_no_requeue(eos_reached, pend, mpp_frame, rf, has_packet) ==
    IF rf \in {"poll_timeout", "poll_error"}
    THEN receive_fail("AVERROR_UNKNOWN", <<"poll_out_failed">>, FALSE,
                      mpp_frame, pend, FALSE, FALSE)
    ELSE IF rf \in {"dequeue_timeout", "dequeue_null"}
    THEN receive_fail("AVERROR_UNKNOWN", <<"poll_out", "dequeue_out_failed">>,
                      FALSE, mpp_frame, pend, FALSE, FALSE)
    ELSE IF ~has_packet
    THEN receive_fail("0", <<"poll_out", "dequeue_out">>, FALSE, mpp_frame,
                      Tail(pend), FALSE, FALSE)
    ELSE
    LET pkt_eos == Head(pend)
        rest    == Tail(pend)
        e1 == <<"poll_out", "dequeue_out", "meta_get_packet">>
        e2 == e1 \o <<"enqueue_out">>
    IN  IF rf = "enqueue"
        THEN receive_fail("AVERROR_UNKNOWN", e1 \o <<"enqueue_out_failed">>,
                          TRUE, mpp_frame, rest, FALSE, FALSE)
        ELSE IF pkt_eos /\ eos_reached
        THEN receive_fail("AVERROR_EOF", e2, TRUE, mpp_frame, rest, FALSE, TRUE)
        ELSE IF rf = "av_mallocz"
        THEN receive_fail("AVERROR(ENOMEM)", e2 \o <<"av_mallocz_failed">>,
                          TRUE, mpp_frame, rest, FALSE, pkt_eos)
        ELSE IF rf = "av_buffer_create"
        THEN receive_fail("AVERROR(ENOMEM)",
                          e2 \o <<"av_mallocz", "av_buffer_ref",
                                  "av_buffer_create_failed", "av_buffer_unref">>,
                          TRUE, mpp_frame, rest, FALSE, pkt_eos)
        ELSE receive_fail("0",
                          e2 \o <<"av_mallocz", "av_buffer_ref",
                                  "av_buffer_create">>,
                          FALSE, mpp_frame, rest, TRUE, pkt_eos)

(* rkmpp_receive_packet.  pend is what the engine holds; the task taken    *)
(* from the output port is the one of the oldest frame, and its packet     *)
(* (when the task carries one) has that frame's eos flag.                  *)
rkmpp_receive_packet(eos_reached, pend, mpp_frame, rf, has_packet) ==
    IF rf \in {"poll_timeout", "poll_error"}
    THEN receive_fail("AVERROR_UNKNOWN", <<"poll_out_failed">>, FALSE,
                      mpp_frame, pend, FALSE, FALSE)
    ELSE IF rf \in {"dequeue_timeout", "dequeue_null"}
    THEN receive_fail("AVERROR_UNKNOWN", <<"poll_out", "dequeue_out_failed">>,
                      FALSE, mpp_frame, pend, FALSE, FALSE)
    ELSE
    LET pkt_eos == Head(pend)
        rest    == Tail(pend)
        e1 == <<"poll_out", "dequeue_out">>
              \o (IF has_packet THEN <<"meta_get_packet">> ELSE <<>>)
        e2 == e1 \o <<"enqueue_out">>
    IN  IF rf = "enqueue"
        THEN receive_fail("AVERROR_UNKNOWN", e1 \o <<"enqueue_out_failed">>,
                          has_packet, mpp_frame, rest, FALSE, FALSE)
        ELSE IF ~has_packet
        THEN receive_fail("0", e2, FALSE, mpp_frame, rest, FALSE, FALSE)
        ELSE IF pkt_eos /\ eos_reached
        THEN receive_fail("AVERROR_EOF", e2, TRUE, mpp_frame, rest, FALSE, TRUE)
        ELSE IF rf = "av_mallocz"
        THEN receive_fail("AVERROR(ENOMEM)", e2 \o <<"av_mallocz_failed">>,
                          TRUE, mpp_frame, rest, FALSE, pkt_eos)
        ELSE IF rf = "av_buffer_create"
        THEN receive_fail("AVERROR(ENOMEM)",
                          e2 \o <<"av_mallocz", "av_buffer_ref",
                                  "av_buffer_create_failed", "av_buffer_unref">>,
                          TRUE, mpp_frame, rest, FALSE, pkt_eos)
        ELSE receive_fail("0",
                          e2 \o <<"av_mallocz", "av_buffer_ref",
                                  "av_buffer_create">>,
                          FALSE, mpp_frame, rest, TRUE, pkt_eos)

-----------------------------------------------------------------------------
(* One encode call *)

(* What the engine holds once rkmpp_send_frame has returned. *)
pending_after_send(pend, s) ==
    IF s.submitted THEN Append(pend, s.eos) ELSE pend

(* A plausible slip: only AVERROR(EAGAIN) is taken as "no packet". *)
encode_return_eagain_only(recv_ret) ==
    IF recv_ret = "AVERROR(EAGAIN)"
    THEN [ret |-> "0", got_packet |-> "0"]
    ELSE IF recv_ret # "0"
    THEN [ret |-> recv_ret, got_packet |-> "unset"]
    ELSE [ret |-> "0", got_packet |-> "1"]

(* What rkmpp_encode_frame makes of the value rkmpp_receive_packet         *)
(* returned: its return value and *got_packet.                             *)
encode_return(recv_ret) ==
    IF recv_ret \in {"AVERROR(EAGAIN)", "AVERROR_EOF"}
    THEN [ret |-> "0", got_packet |-> "0"]
    ELSE IF recv_ret # "0"
    THEN [ret |-> recv_ret, got_packet |-> "unset"]
    ELSE [ret |-> "0", got_packet |-> "1"]

rkmpp_encode_frame(eos_reached, pend, avframe, sf, rf, has_packet) ==
    LET s == rkmpp_send_frame(eos_reached, avframe, sf)
    IN  IF s.ret # "0"
        THEN [ret |-> s.ret, got_packet |-> "unset", send |-> s,
              ran_receive |-> FALSE, recv_ret |-> "none",
              eos_reached |-> s.eos_reached, pending |-> pend,
              delivered |-> FALSE, pkt_eos |-> FALSE, mpp_frame |-> FALSE,
              ev |-> s.ev]
        ELSE
        LET r == rkmpp_receive_packet(s.eos_reached,
                                      pending_after_send(pend, s),
                                      s.out_frame, rf, has_packet)
        IN  [ret |-> encode_return(r.ret).ret,
             got_packet |-> encode_return(r.ret).got_packet,
             send |-> s, ran_receive |-> TRUE, recv_ret |-> r.ret,
             eos_reached |-> s.eos_reached, pending |-> r.pending,
             delivered |-> r.delivered, pkt_eos |-> r.pkt_eos,
             mpp_frame |-> r.mpp_frame,
             ev |-> s.ev \o <<"receive">> \o r.ev]

-----------------------------------------------------------------------------
(* The state machine *)

NoCall == [op |-> "none", null |-> FALSE, invalid |-> FALSE, sf |-> "none", rf |-> "none",
           has_packet |-> FALSE, eos_before |-> FALSE, ret |-> "0",
           got_packet |-> "unset", queue_err |-> "0", submitted |-> FALSE,
           ran_receive |-> FALSE, recv_ret |-> "none", delivered |-> FALSE,
           pkt_eos |-> FALSE, mpp_frame |-> FALSE, frame_eos |-> FALSE,
           ev |-> <<>>]

(* The caller's settings of the session the state machine follows: the    *)
(* spec's scenario bitrate, profile and level left unset, libavcodec's     *)
(* default quantizer range.                                                *)
DefaultAvctx == [bit_rate |-> 4000000, profile |-> -99, level |-> -99,
                 qmin |-> 2, qmax |-> 31, max_qdiff |-> 3]

NoPkt == [pts |-> 0, dts |-> 0]

NotApplied == [case |-> "session", avctx |-> DefaultAvctx,
               rc_mode |-> "MPP_ENC_RC_MODE_CBR",
               quality |-> "MPP_ENC_RC_QUALITY_MEDIUM",
               n_codec |-> 0, codec_first |-> NoCodecCfg,
               pkt |-> NoPkt, n_ts |-> 0, pkt_first |-> NoPkt]

(* The session before AVCodec.init. *)
SessionInit ==
    /\ initDone = "no"
    /\ init_ret = "0"
    /\ init_steps = <<>>
    /\ encoder_ref = FALSE
    /\ refcount = 0
    /\ encoder = NoEncoder
    /\ teardown = <<>>
    /\ pending = <<>>
    /\ outPkts = 0
    /\ nCalls = 0
    /\ nSubmitted = 0
    /\ nDelivered = 0
    /\ nDeliveredEos = 0
    /\ nEof = 0
    /\ ideal = TRUE
    /\ lastCall = NoCall
    /\ rc_cfg = NoRcCfg
    /\ codec_cfg = NoCodecCfg

Init ==
    /\ have_nv12_10 \in BOOLEAN
    /\ SessionInit
    /\ avctx = DefaultAvctx
    /\ pkt = NoPkt
    /\ applied = NotApplied

(* rkmpp_init_encoder got as far as this step. *)
init_reached(step, steps) == \E k \in DOMAIN steps : steps[k] = step

(* AVCodec.init *)
InitEncoder ==
    /\ initDone = "no"
    /\ \E codec_id \in CodecIds, fault \in InitFaults, has_header \in BOOLEAN :
          /\ fault = "extradata" => has_header
          /\ LET i == rkmpp_init_encoder(codec_id, fault, has_header)
             IN  /\ initDone' = IF i.ret = "0" THEN "ok" ELSE "failed"
                 /\ init_ret' = i.ret
                 /\ init_steps' = i.steps
                 /\ encoder_ref' = i.encoder_ref
                 /\ refcount' = i.refcount
                 /\ encoder' = i.encoder
                 /\ teardown' = i.teardown
                 /\ lastCall' = [NoCall EXCEPT !.op = "init", !.ret = i.ret,
                                                   !.sf = init_fail_step(codec_id, fault)]
                 /\ \E rc \in {IF init_reached("rc_cfg", i.steps)
                                THEN rkmpp_rc_config(avctx.bit_rate)
                                ELSE NoRcCfg} :
                      /\ rc_cfg' = rc
                      /\ IF init_reached("codec_cfg", i.steps)
                         THEN \E c \in {rkmpp_codec_config(
                                            avctx,
                                            rkmpp_get_codingtype(codec_id),
                                            rc)} :
                                 /\ codec_cfg' = c.codec_cfg
                                 /\ avctx' = c.avctx
                         ELSE UNCHANGED <<codec_cfg, avctx>>
    /\ UNCHANGED <<have_nv12_10, pending, outPkts, nCalls, nSubmitted,
                   nDelivered, nDeliveredEos, nEof, ideal, pkt, applied>>

(* AVCodec.close; also what the framework calls after a failed init. *)
Close ==
    /\ LET c == rkmpp_close_encoder(encoder_ref, refcount, encoder, teardown)
       IN  /\ encoder_ref' = c.encoder_ref
           /\ refcount' = c.refcount
           /\ encoder' = c.encoder
           /\ teardown' = c.teardown
    /\ lastCall' = [NoCall EXCEPT !.op = "close"]
    /\ UNCHANGED <<have_nv12_10, initDone, init_ret, init_steps, pending,
                   outPkts, nCalls, nSubmitted, nDelivered, nDeliveredEos,
                   nEof, ideal, avctx, rc_cfg, codec_cfg, pkt, applied>>

(* The caller releases one of the packets it was given. *)
ReleasePacket ==
    /\ outPkts > 0
    /\ LET c == rkmpp_release_packet(refcount, encoder, teardown)
       IN  /\ refcount' = c.refcount
           /\ encoder' = c.encoder
           /\ teardown' = c.teardown
    /\ outPkts' = outPkts - 1
    /\ lastCall' = [NoCall EXCEPT !.op = "release_packet"]
    /\ UNCHANGED <<have_nv12_10, initDone, init_ret, init_steps, encoder_ref,
                   pending, nCalls, nSubmitted, nDelivered, nDeliveredEos,
                   nEof, ideal, avctx, rc_cfg, codec_cfg, pkt, applied>>

(* The frames the spec calls InvalidInput: no hardware-importable buffer,   *)
(* or a pixel format without an engine mapping.                            *)
InvalidInput(avframe) ==
    /\ ~avframe.null
    /\ \/ avframe.format # "AV_PIX_FMT_DRM_PRIME"
       \/ rkmpp_get_mppformat(avframe.sw_format) = "-1"

(* What the engine can answer during one rkmpp_encode_frame call, s being  *)
(* the outcome of the submission: a buffer import is only attempted for a  *)
(* non-null frame; calls that are never reached do not fail; the output    *)
(* port has a completed task only if the engine holds a frame; a task that *)
(* was never obtained carries nothing, and an allocation for a packet is   *)
(* only attempted when the task carries one.                               *)
EngineCanAnswer(avframe, s, sf, rf, has_packet) ==
    /\ avframe.null => sf # "mpp_buffer_import"
    /\ InvalidInput(avframe) => sf = "none"
    /\ s.ret # "0" => rf = "none" /\ has_packet
    /\ (s.ret = "0" /\ pending_after_send(pending, s) = <<>>)
          => rf \in {"poll_timeout", "poll_error"}
    /\ rf \in {"av_mallocz", "av_buffer_create"} => has_packet
    /\ rf \in {"poll_timeout", "poll_error", "dequeue_timeout",
               "dequeue_null"} => ~has_packet

(* AVCodec.encode2 *)
Encode ==
    /\ initDone = "ok"
    /\ encoder_ref
    /\ nCalls < MaxCalls
    /\ \E avframe \in Frames, sf \in SubmitFaults :
       \E s \in {rkmpp_send_frame(encoder.eos_reached, avframe, sf)} :
       \E rf \in ReceiveFaults, has_packet \in BOOLEAN :
          /\ EngineCanAnswer(avframe, s, sf, rf, has_packet)
          /\ \E c \in {rkmpp_encode_frame(encoder.eos_reached, pending,
                                          avframe, sf, rf, has_packet)} :
              /\ encoder' = [encoder EXCEPT !.eos_reached = c.eos_reached]
              /\ pending' = c.pending
              /\ refcount' = refcount + (IF c.delivered THEN 1 ELSE 0)
              /\ outPkts' = outPkts + (IF c.delivered THEN 1 ELSE 0)
              /\ nCalls' = nCalls + 1
              /\ nSubmitted' = nSubmitted
                     + (IF s.submitted /\ ~avframe.null THEN 1 ELSE 0)
              /\ nDelivered' = nDelivered
                     + (IF c.delivered /\ ~c.pkt_eos THEN 1 ELSE 0)
              /\ nDeliveredEos' = nDeliveredEos
                     + (IF c.delivered /\ c.pkt_eos THEN 1 ELSE 0)
              /\ nEof' = nEof + (IF c.recv_ret = "AVERROR_EOF" THEN 1 ELSE 0)
              /\ ideal' = (ideal /\ sf = "none" /\ rf = "none" /\ has_packet)
              /\ lastCall' = [op |-> "encode", null |-> avframe.null,
                              invalid |-> InvalidInput(avframe),
                              sf |-> sf, rf |-> rf, has_packet |-> has_packet,
                              eos_before |-> encoder.eos_reached,
                              ret |-> c.ret, got_packet |-> c.got_packet,
                              queue_err |-> s.err, submitted |-> s.submitted,
                              ran_receive |-> c.ran_receive,
                              recv_ret |-> c.recv_ret,
                              delivered |-> c.delivered, pkt_eos |-> c.pkt_eos,
                              mpp_frame |-> c.mpp_frame,
                              frame_eos |-> s.eos, ev |-> c.ev]
    /\ UNCHANGED <<have_nv12_10, initDone, init_ret, init_steps, encoder_ref,
                   teardown, avctx, rc_cfg, codec_cfg, pkt, applied>>

Next == InitEncoder \/ Encode \/ Close \/ ReleasePacket

Spec == Init /\ [][Next]_vars

-----------------------------------------------------------------------------
(* The configuration and timestamp steps on their own, over ranges of the  *)
(* caller's settings.  The rate-control mode and quality, which            *)
(* rkmpp_rc_config fixes, range over the values its branches test.         *)

(* Bound on the timestamps, and on how often a step is applied again. *)
MaxTs == 2
MaxApply == 2

BitRates == {0, 1, 15, 16, 17, 1000001, 4000000}
Profiles == {FF_PROFILE_H264_BASELINE, FF_PROFILE_H264_MAIN,
             FF_PROFILE_H264_HIGH, 110, -99}
Levels == {FF_LEVEL_UNKNOWN, 31, 51, 99}
Quantizers == {[qmin |-> 2, qmax |-> 31, max_qdiff |-> 3],
               [qmin |-> 10, qmax |-> 30, max_qdiff |-> 4]}
RcModes == {"MPP_ENC_RC_MODE_CBR", "MPP_ENC_RC_MODE_VBR"}
Qualities == {"MPP_ENC_RC_QUALITY_CQP", "MPP_ENC_RC_QUALITY_MEDIUM"}
Timestamps == (0 - MaxTs)..MaxTs

sessionVars == <<have_nv12_10, initDone, init_ret, init_steps, encoder_ref,
                 refcount, encoder, teardown, pending, outPkts, nCalls,
                 nSubmitted, nDelivered, nDeliveredEos, nEof, ideal, lastCall>>

CfgInit ==
    /\ have_nv12_10 = FALSE
    /\ SessionInit
    /\ \/ /\ \E b \in BitRates, p \in Profiles, l \in Levels, q \in Quantizers :
                avctx = [bit_rate |-> b, profile |-> p, level |-> l,
                         qmin |-> q.qmin, qmax |-> q.qmax,
                         max_qdiff |-> q.max_qdiff]
          /\ pkt = NoPkt
          /\ \E m \in RcModes, q \in Qualities :
                applied = [NotApplied EXCEPT !.case = "config", !.avctx = avctx,
                                             !.rc_mode = m, !.quality = q]
       \/ /\ avctx = DefaultAvctx
          /\ pkt \in [pts : Timestamps, dts : Timestamps]
          /\ applied = [NotApplied EXCEPT !.case = "timestamps", !.pkt = pkt]

(* rkmpp_rc_config's bitrate branches for the mode and quality drawn. *)
ApplyRateControl ==
    /\ applied.case = "config"
    /\ rc_cfg = NoRcCfg
    /\ rc_cfg' = [rc_mode |-> applied.rc_mode, quality |-> applied.quality]
                  @@ rc_bitrate(applied.rc_mode, applied.quality,
                                avctx.bit_rate)
    /\ UNCHANGED <<sessionVars, avctx, codec_cfg, pkt, applied>>

(* rkmpp_codec_config on the rate-control block just set; it can be        *)
(* applied again to the avctx it left.                                     *)
ApplyCodec ==
    /\ applied.case = "config"
    /\ rc_cfg # NoRcCfg
    /\ applied.n_codec < MaxApply
    /\ \E c \in {rkmpp_codec_config(avctx, "MPP_VIDEO_CodingAVC", rc_cfg)} :
          /\ codec_cfg' = c.codec_cfg
          /\ avctx' = c.avctx
          /\ applied' = [applied EXCEPT
                           !.n_codec = @ + 1,
                           !.codec_first = IF applied.n_codec = 0
                                           THEN c.codec_cfg ELSE @]
    /\ UNCHANGED <<sessionVars, rc_cfg, pkt>>

(* The timestamp lines of rkmpp_receive_packet, on the packet as the       *)
(* engine gave it and again on their own result.                           *)
NormalizeTimestamps ==
    /\ applied.case = "timestamps"
    /\ applied.n_ts < MaxApply
    /\ \E t \in {normalize_timestamps(pkt.pts, pkt.dts)} :
          /\ pkt' = t
          /\ applied' = [applied EXCEPT
                           !.n_ts = @ + 1,
                           !.pkt_first = IF applied.n_ts = 0 THEN t ELSE @]
    /\ UNCHANGED <<sessionVars, avctx, rc_cfg, codec_cfg>>

CfgNext == ApplyRateControl \/ ApplyCodec \/ NormalizeTimestamps

SpecCfg == CfgInit /\ [][CfgNext]_vars

-----------------------------------------------------------------------------
(* Properties *)

Count(seq, x) == Cardinality({i \in DOMAIN seq : seq[i] = x})

FullTeardown == <<"reset", "mpp_destroy", "av_free">>

Timeouts == {"poll_timeout", "dequeue_timeout"}

(* The last call was an encode call in which a port poll or dequeue timed  *)
(* out.                                                                    *)
TimedOut ==
    /\ lastCall.op = "encode"
    /\ lastCall.sf \in Timeouts \/ lastCall.rf \in Timeouts

(* C1: end-of-stream draining.  After encode(null), exactly one retrieval  *)
(* delivers a packet flagged end-of-stream and the retrieval after it      *)
(* yields EndOfStream: whenever a retrieval ends in EndOfStream, exactly   *)
(* one end-of-stream packet has been delivered before, and never two.      *)
C1_OneEosPacketThenEof ==
    /\ nDeliveredEos <= 1
    /\ (lastCall.op = "encode" /\ lastCall.recv_ret = "AVERROR_EOF")
          => nDeliveredEos = 1

C3_TimeoutIsTransient ==
    TimedOut =>
        \/ lastCall.ret = "AVERROR(EAGAIN)"
        \/ lastCall.ret = "0" /\ lastCall.got_packet = "0"

(* C4: a call that ends in a timeout does not advance eosReached: if it    *)
(* was false before the call, it is false after it.                        *)
C4_TimeoutKeepsEos ==
    (TimedOut /\ ~lastCall.eos_before) => ~encoder.eos_reached

(* C5: a submission failure after the descriptor was allocated is          *)
(* propagated: the descriptor is released, encode() returns non-success    *)
(* and retrieval is not run.                                               *)
C5_SubmitFailurePropagated ==
    (lastCall.op = "encode" /\ lastCall.queue_err # "0"
        /\ Count(lastCall.ev, "mpp_frame_init") = 1)
      => /\ lastCall.ret # "0"
         /\ ~lastCall.ran_receive
         /\ Count(lastCall.ev, "mpp_frame_deinit") = 1

(* C6: packet count across a stream.  Against an engine that completes     *)
(* every task, the packets delivered never outnumber the frames submitted, *)
(* and the first encode(null) after N frames finds N packets delivered and *)
(* delivers the one end-of-stream packet.                                  *)
C6_PacketCount ==
    ideal =>
        /\ nDelivered <= nSubmitted
        /\ (lastCall.op = "encode" /\ lastCall.null /\ ~lastCall.eos_before)
              => /\ nDelivered = nSubmitted
                 /\ lastCall.delivered /\ lastCall.pkt_eos
                 /\ nDeliveredEos = 1

(* C7: no native handle leaks.  After every encode() each frame descriptor *)
(* and each imported buffer of the call has been released, and each native *)
(* packet taken from the output task is owned by the delivered packet      *)
(* handle or has been released.                                            *)
C7_NoHandleLeak ==
    lastCall.op = "encode" =>
        /\ Count(lastCall.ev, "mpp_frame_init")
              = Count(lastCall.ev, "mpp_frame_deinit")
        /\ Count(lastCall.ev, "mpp_buffer_import")
              = Count(lastCall.ev, "mpp_buffer_put")
        /\ Count(lastCall.ev, "meta_get_packet")
              = Count(lastCall.ev, "mpp_packet_deinit")
                + Count(lastCall.ev, "av_buffer_create")
        /\ lastCall.delivered <=> Count(lastCall.ev, "av_buffer_create") = 1
        /\ ~lastCall.mpp_frame

(* A retrieval took a native packet and failed after that, with a frame    *)
(* submitted in the same call.                                             *)
C7_Witness ==
    /\ lastCall.op = "encode"
    /\ lastCall.submitted /\ ~lastCall.null
    /\ lastCall.recv_ret = "AVERROR(ENOMEM)"
    /\ Count(lastCall.ev, "meta_get_packet") = 1

(* C8: a failure of any step of session start closes the session: init     *)
(* returns an error, the failing step is the last one executed, the        *)
(* session handle is released and the encoder freed, and the engine        *)
(* context, if it had been created, is reset and destroyed.                *)
C8_InitFailureCloses ==
    initDone = "failed" =>
        /\ init_ret # "0"
        /\ ~encoder_ref /\ refcount = 0
        /\ ~encoder.allocated /\ ~encoder.ctx
        /\ encoder.mpi => teardown = FullTeardown
        /\ lastCall.op = "init"
              => /\ init_steps # <<>>
                 /\ init_steps[Len(init_steps)] = lastCall.sf
                 /\ init_steps = SubSeq(InitSteps, 1, Len(init_steps))

(* Session start failed after the engine context had been created. *)
C8_Witness ==
    /\ initDone = "failed"
    /\ lastCall.op = "init"
    /\ lastCall.sf = "codec_cfg"
    /\ encoder.mpi

(* C9: InvalidInput leaves the session usable.  An encode() whose frame    *)
(* has no hardware-importable buffer or no engine pixel format fails that  *)
(* call only: no descriptor is allocated, no port is touched, and the      *)
(* session (eosReached and the reference count included) is as before.     *)
C9_InvalidInputNoEffect ==
    [][ (lastCall'.op = "encode" /\ lastCall'.invalid)
          => /\ lastCall'.ret = "AVERROR(EINVAL)"
             /\ lastCall'.ev = <<>>
             /\ ~lastCall'.ran_receive
             /\ session' = session ]_vars

(* An invalid frame was rejected while the engine held a frame and a       *)
(* packet was out.                                                         *)
C9_Witness ==
    /\ lastCall.op = "encode" /\ lastCall.invalid
    /\ pending # <<>>
    /\ outPkts > 0

(* C10: close() is idempotent and ordered.  It leaves the session handle   *)
(* released; when it drops the last reference the context is reset, then   *)
(* destroyed; a close() on a released handle changes nothing, so reset and *)
(* destroy never run twice.                                                *)
C10_CloseIdempotent ==
    [][ lastCall'.op = "close"
          => /\ ~encoder_ref'
             /\ (encoder_ref /\ refcount = 1 /\ encoder.mpi)
                   => teardown' = teardown \o FullTeardown
             /\ ~encoder_ref => session' = session
             /\ Count(teardown', "reset") <= 1
             /\ Count(teardown', "mpp_destroy") <= 1 ]_vars

(* The close() that follows a failed init whose fail label had already     *)
(* torn the engine down.                                                   *)
C10_Witness ==
    /\ lastCall.op = "close"
    /\ initDone = "failed"
    /\ teardown = FullTeardown

(* C11: EndOfStream is not an error to the caller.  When retrieval ends in *)
(* EndOfStream, encode() returns success with got_packet = 0 and hands out *)
(* no packet.                                                              *)
C11_EofIsSuccess ==
    (lastCall.op = "encode" /\ lastCall.recv_ret = "AVERROR_EOF")
      => /\ lastCall.ret = "0"
         /\ lastCall.got_packet = "0"
         /\ ~lastCall.delivered

(* A retrieval met an end-of-stream packet after eos_reached was set. *)
C11_Witness ==
    /\ lastCall.op = "encode"
    /\ lastCall.recv_ret = "AVERROR_EOF"
    /\ lastCall.pkt_eos /\ encoder.eos_reached

(* C12: bitrate bounds programmed by rkmpp_rc_config, as exact fractions   *)
(* of the target: constant bitrate gives min = 15/16 target and            *)
(* max = 17/16 target; variable bitrate with variable quality gives        *)
(* min = 1/16 target and max = 17/16 target; variable bitrate with fixed   *)
(* quality gives target = min = max = -1.                                  *)
C12_BitrateBoundsExact ==
    rc_cfg # NoRcCfg =>
        IF rc_cfg.rc_mode = "MPP_ENC_RC_MODE_CBR"
        THEN /\ rc_cfg.bps_target = avctx.bit_rate
             /\ 16 * rc_cfg.bps_min = 15 * rc_cfg.bps_target
             /\ 16 * rc_cfg.bps_max = 17 * rc_cfg.bps_target
        ELSE IF rc_cfg.quality = "MPP_ENC_RC_QUALITY_CQP"
        THEN /\ rc_cfg.bps_target = -1
             /\ rc_cfg.bps_min = -1
             /\ rc_cfg.bps_max = -1
        ELSE /\ rc_cfg.bps_target = avctx.bit_rate
             /\ 16 * rc_cfg.bps_min = rc_cfg.bps_target
             /\ 16 * rc_cfg.bps_max = 17 * rc_cfg.bps_target

(* q is the fraction num/16 of target rounded down to an integer. *)
IsFloor16(q, num, target) ==
    /\ 16 * q <= num * target
    /\ num * target < 16 * (q + 1)

(* C12 as amended: the bounds are the fractions rounded down to integers;  *)
(* they are the exact fractions when the target is a multiple of 16.       *)
C12_BitrateBoundsFloor ==
    rc_cfg # NoRcCfg =>
        IF rc_cfg.rc_mode = "MPP_ENC_RC_MODE_CBR"
        THEN /\ rc_cfg.bps_target = avctx.bit_rate
             /\ IsFloor16(rc_cfg.bps_min, 15, rc_cfg.bps_target)
             /\ IsFloor16(rc_cfg.bps_max, 17, rc_cfg.bps_target)
        ELSE IF rc_cfg.quality = "MPP_ENC_RC_QUALITY_CQP"
        THEN /\ rc_cfg.bps_target = -1
             /\ rc_cfg.bps_min = -1
             /\ rc_cfg.bps_max = -1
        ELSE /\ rc_cfg.bps_target = avctx.bit_rate
             /\ IsFloor16(rc_cfg.bps_min, 1, rc_cfg.bps_target)
             /\ IsFloor16(rc_cfg.bps_max, 17, rc_cfg.bps_target)

(* A constant-bitrate block for a target that is not a multiple of 16. *)
C12_Witness ==
    /\ rc_cfg.rc_mode = "MPP_ENC_RC_MODE_CBR"
    /\ rc_cfg.bps_target = 1000001
    /\ rc_cfg.bps_min = 937500
    /\ rc_cfg.bps_max = 1062501

(* C13: the QP bounds programmed for AVC are a function of the             *)
(* rate-control mode and quality only, never of the caller's qmin, qmax    *)
(* and max_qdiff: constant bitrate gives {48, 4, 16, 0}; variable bitrate  *)
(* with fixed quality gives qp_max = qp_min = qp_init and step 0; variable *)
(* bitrate with variable quality gives {40, 12, 8, 0}.                     *)
C13_QpBounds ==
    (applied.case = "config" /\ applied.n_codec > 0) =>
        LET qp == <<codec_cfg.qp_max, codec_cfg.qp_min,
                    codec_cfg.qp_max_step, codec_cfg.qp_init>>
        IN  IF rc_cfg.rc_mode = "MPP_ENC_RC_MODE_CBR"
            THEN qp = <<48, 4, 16, 0>>
            ELSE IF rc_cfg.quality = "MPP_ENC_RC_QUALITY_CQP"
            THEN /\ codec_cfg.qp_max = codec_cfg.qp_init
                 /\ codec_cfg.qp_min = codec_cfg.qp_init
                 /\ codec_cfg.qp_max_step = 0
            ELSE qp = <<40, 12, 8, 0>>

(* Constant bitrate with a caller's range that differs from the table. *)
C13_Witness ==
    /\ applied.case = "config"
    /\ applied.n_codec > 0
    /\ rc_cfg.rc_mode = "MPP_ENC_RC_MODE_CBR"
    /\ applied.avctx.qmin = 10
    /\ applied.avctx.qmax = 30
    /\ codec_cfg.qp_max = 48
    /\ codec_cfg.qp_min = 4

C15_TimestampsIdempotent ==
    (applied.case = "timestamps" /\ applied.n_ts > 0) =>
        /\ applied.n_ts > 1 => pkt = applied.pkt_first
        /\ (applied.pkt.pts <= 0 /\ applied.pkt.dts <= 0)
               => (pkt.pts <= 0 /\ pkt.dts <= 0)
        /\ applied.pkt.pts > 0 => pkt.pts = applied.pkt.pts
        /\ applied.pkt.dts > 0 => pkt.dts = applied.pkt.dts

(* Normalization applied twice to a packet whose timestamps are both       *)
(* negative and differ.                                                    *)
C15_Witness ==
    /\ applied.case = "timestamps"
    /\ applied.n_ts > 1
    /\ applied.pkt = [pts |-> -1, dts |-> -2]
    /\ pkt = [pts |-> -2, dts |-> -2]

C17_SingleDepth ==
    /\ Len(pending) <= 1
    /\ (lastCall.op = "encode" /\ lastCall.submitted
          /\ Count(lastCall.ev, "dequeue_out") = 1)
          => pending = <<>>

Position(seq, x) == CHOOSE i \in DOMAIN seq : seq[i] = x

PortAttempts == {"enqueue_in", "enqueue_in_failed", "poll_in_failed",
                 "dequeue_in_failed"}

(* C18: imported buffer wrapper lifetime.  When the import succeeded the   *)
(* wrapper is released exactly once, after the enqueue attempt or after    *)
(* the failing poll or dequeue, never before the descriptor went to the    *)
(* input port; when nothing was imported nothing is released.              *)
C18_WrapperLifetime ==
    lastCall.op = "encode" =>
        /\ Count(lastCall.ev, "mpp_buffer_import") = 1
              => /\ Count(lastCall.ev, "mpp_buffer_put") = 1
                 /\ \E i \in DOMAIN lastCall.ev :
                       /\ lastCall.ev[i] \in PortAttempts
                       /\ i < Position(lastCall.ev, "mpp_buffer_put")
        /\ Count(lastCall.ev, "mpp_buffer_import") = 0
              => Count(lastCall.ev, "mpp_buffer_put") = 0

(* A buffer was imported, the frame went to the input port and the wrapper *)
(* was released.                                                           *)
C18_Witness ==
    /\ lastCall.op = "encode"
    /\ Count(lastCall.ev, "mpp_buffer_import") = 1
    /\ Count(lastCall.ev, "enqueue_in") = 1
    /\ Count(lastCall.ev, "mpp_buffer_put") = 1

ConfigOrder == <<"prep_cfg", "rc_cfg", "codec_cfg", "sei_cfg",
                 "input_timeout", "output_timeout", "extra_info">>

(* The engine settings session start applied, in the order it applied them. *)
ConfigApplied ==
    LET IsConfig(step) == \E i \in DOMAIN ConfigOrder : ConfigOrder[i] = step
    IN  SelectSeq(init_steps, IsConfig)

(* C19: configuration ordering.  Session start applies preparation,        *)
(* rate control, codec, metadata mode, input timeout, output timeout and   *)
(* header retrieval in that order, each at most once, and no frame reaches *)
(* the engine before all of them have succeeded.                           *)
C19_ConfigOrder ==
    /\ ConfigApplied = SubSeq(ConfigOrder, 1, Len(ConfigApplied))
    /\ (nCalls > 0 \/ pending # <<>>)
          => /\ initDone = "ok"
             /\ ConfigApplied = ConfigOrder

(* A frame is in the engine. *)
C19_Witness ==
    /\ pending # <<>>
    /\ nSubmitted > 0
    /\ ConfigApplied = ConfigOrder

(* C20: whenever encode() returns success with got_packet = 1, the output  *)
(* packet was populated in that call from a native packet of the output    *)
(* task and holds a reference to the session.                              *)
C20_GotPacketIsPopulated ==
    (lastCall.op = "encode" /\ lastCall.ret = "0"
        /\ lastCall.got_packet = "1")
      => /\ lastCall.delivered
         /\ Count(lastCall.ev, "meta_get_packet") = 1
         /\ Count(lastCall.ev, "av_buffer_ref") = 1
         /\ Count(lastCall.ev, "av_buffer_create") = 1

(* The events of a call that rkmpp_send_frame made, and those that         *)
(* rkmpp_receive_packet made.                                              *)
SendEvents(ev) ==
    IF \E i \in DOMAIN ev : ev[i] = "receive"
    THEN SubSeq(ev, 1, Position(ev, "receive") - 1)
    ELSE ev

ReceiveEvents(ev) ==
    IF \E i \in DOMAIN ev : ev[i] = "receive"
    THEN SubSeq(ev, Position(ev, "receive") + 1, Len(ev))
    ELSE <<>>

(* C21: the frame descriptor is released exactly once.  On every path      *)
(* through rkmpp_encode_frame a descriptor that was allocated is           *)
(* deinitialised exactly once: by the submission when it failed, by the    *)
(* retrieval when the descriptor was submitted, never by both; a call that *)
(* allocated none deinitialises none; the frame handle is null once the    *)
(* retrieval has returned, so the assertion holds.                         *)
C21_FrameReleasedOnce ==
    lastCall.op = "encode" =>
        /\ Count(lastCall.ev, "mpp_frame_deinit")
               = Count(lastCall.ev, "mpp_frame_init")
        /\ Count(lastCall.ev, "mpp_frame_init") <= 1
        /\ Count(SendEvents(lastCall.ev), "mpp_frame_deinit")
               = (IF Count(lastCall.ev, "mpp_frame_init") = 1
                     /\ ~lastCall.submitted THEN 1 ELSE 0)
        /\ Count(ReceiveEvents(lastCall.ev), "mpp_frame_deinit")
               = (IF lastCall.submitted THEN 1 ELSE 0)
        /\ lastCall.ran_receive => ~lastCall.mpp_frame

(* A submitted descriptor released by a retrieval that failed. *)
C21_Witness ==
    /\ lastCall.op = "encode"
    /\ lastCall.submitted
    /\ lastCall.rf = "poll_timeout"
    /\ Count(ReceiveEvents(lastCall.ev), "mpp_frame_deinit") = 1
    /\ ~lastCall.mpp_frame

(* C22: eos_reached is monotonic.  It is false from the creation of the    *)
(* session until the first encode call with a null frame, is true from the *)
(* start of that call whatever the call's outcome, and no later call,      *)
(* failure or retrieval resets it; every frame descriptor submitted from   *)
(* then on, also one for a non-null frame, carries the end-of-stream flag. *)
C22_EosMonotonic ==
    /\ ~encoder.eos_reached
    /\ [][/\ encoder.eos_reached => encoder'.eos_reached
          /\ (~encoder.eos_reached /\ encoder'.eos_reached)
                => (nCalls' = nCalls + 1 /\ lastCall'.null)
          /\ (nCalls' = nCalls + 1 /\ lastCall'.null)
                => encoder'.eos_reached
          /\ (nCalls' = nCalls + 1 /\ lastCall'.submitted)
                => (lastCall'.frame_eos = encoder'.eos_reached)]_vars

(* A non-null frame submitted after the end of the stream was signalled. *)
C22_Witness ==
    /\ lastCall.op = "encode"
    /\ ~lastCall.null
    /\ lastCall.eos_before
    /\ lastCall.submitted
    /\ lastCall.frame_eos
    /\ encoder.eos_reached

(* The step at which the failed session start took "goto fail". *)
FailedStep == init_steps[Len(init_steps)]

(* The failure came before the engine context existed: at the codec        *)
(* lookup, the capability check, an allocation, or the creation itself.    *)
FailedBeforeContext == StepIndex(FailedStep) <= StepIndex("mpp_create")

(* C23: teardown after a failed session start matches what was created.    *)
(* If it failed before the engine context was created, reset and destroy   *)
(* are never invoked; if it failed after, each is invoked exactly once; in *)
(* both cases the session record is freed exactly once and the session     *)
(* handle is left null.                                                    *)
C23_TeardownMatchesCreated ==
    initDone = "failed" =>
        /\ Count(teardown, "reset")
               = (IF FailedBeforeContext THEN 0 ELSE 1)
        /\ Count(teardown, "mpp_destroy")
               = (IF FailedBeforeContext THEN 0 ELSE 1)
        /\ Count(teardown, "av_free") = 1
        /\ ~encoder_ref

(* C23 as amended: the session record is freed exactly once if it had     *)
(* been allocated, and there is nothing to free when the failure came at   *)
(* or before its allocation.                                               *)
C23_TeardownMatchesAllocated ==
    initDone = "failed" =>
        /\ Count(teardown, "reset")
               = (IF FailedBeforeContext THEN 0 ELSE 1)
        /\ Count(teardown, "mpp_destroy")
               = (IF FailedBeforeContext THEN 0 ELSE 1)
        /\ Count(teardown, "av_free")
               = (IF StepIndex(FailedStep) <= StepIndex("av_mallocz")
                  THEN 0 ELSE 1)
        /\ ~encoder_ref
        /\ refcount = 0
        /\ ~encoder.allocated

(* The creation of the engine context failed, and close was called again   *)
(* after the failed session start.                                         *)
C23_Witness ==
    /\ initDone = "failed"
    /\ FailedStep = "mpp_create"
    /\ lastCall.op = "close"
    /\ teardown = <<"av_free">>
    /\ ~encoder_ref

=============================================================================
